---- MODULE Spec2Model ----
(***************************************************************************)
(* The package initializer tracecat/actions/integrations/siem/__init__.py  *)
(* as a state machine: the import system creates the package module, the   *)
(* initializer runs its four statements in order (three relative           *)
(* from-imports, then the assignment of __all__), and a consumer that got  *)
(* the package calls what it exports.                                      *)
(*                                                                         *)
(* Objects live in a heap and are referred to by identity (their index),   *)
(* so that "the very same object" is something a state can get wrong.      *)
(***************************************************************************)
EXTENDS Naturals, Sequences, FiniteSets, TLC

\* How many times the consumer tries to import the package (a failed import
\* may be retried), and how many calls it makes through the package.
MaxAttempts == 3
MaxCalls == 2

VARIABLES
    pc,          \* "idle", the line about to run ("L1".."L4"), "done", "failed"
    attempts,    \* imports of the package started so far
    heap,        \* the objects, by identity: heap[i] describes object i
    sysModules,  \* sys.modules: module name -> module object
    ns,          \* the package namespace: attribute name -> object
    boundBy,     \* for each name of ns, what bound it: a line, or "machinery"
    modNs,       \* the namespace of each loaded sibling module
    loadedAt,    \* for each loaded sibling, the attempt that executed it
    err,         \* the exception that left the initializer, if any
    calls,       \* calls made through the package (requests to a SIEM backend)
    lastCall     \* the last of them: name, callee and how it ended

vars == <<pc, attempts, heap, sysModules, ns, boundBy, modNs, loadedAt, err,
          calls, lastCall>>

----------------------------------------------------------------------------
\* Helpers on functions used as dictionaries.

Range(s) == {s[i] : i \in DOMAIN s}

EmptyDict == [k \in {} |-> 0]

\* d[n] = v, as Python's STORE_NAME / setattr: a rebinding replaces.
Bind(d, n, v) == (n :> v) @@ d

\* del d[n]
Unset(d, n) == [k \in DOMAIN d \ {n} |-> d[k]]

----------------------------------------------------------------------------
\* Names.

Package == "siem"

\* The three sibling modules the initializer imports from.
Siblings == {"datadog", "elastic", "acumen_elastic"}

\* What the import system sets on a fresh package module before running it
\* (__file__, __spec__, __loader__, ... are set alike).
ModuleAttrs == {"__name__", "__doc__", "__path__"}

\* The names whose first character is an underscore: dir()-style listings of
\* public attributes leave them out.
UnderscoreNames == ModuleAttrs \cup {"__all__"}

IsPublic(n) == n \notin UnderscoreNames

PublicNames(d) == {n \in DOMAIN d : IsPublic(n)}

----------------------------------------------------------------------------
\* Objects.

NoneId == 1

Obj(kind, of, name, items) ==
    [kind |-> kind, of |-> of, name |-> name, items |-> items]

NoneObj == Obj("NoneType", "", "", <<>>)
StrObj(m) == Obj("str", m, "", <<>>)
ListObj(items) == Obj("list", "", "", items)
ModuleObj(m) == Obj("module", m, "", <<>>)
FunctionObj(m, n) == Obj("function", m, n, <<>>)

\* callable(obj): of the objects of this model, the functions are.
Callable(id) == heap[id].kind = "function"

----------------------------------------------------------------------------
\* The sibling modules. Their files are not part of this unit; each is
\* described as defining one alert-listing function.

SiblingDefines(m) ==
    CASE m = "datadog" -> "list_datadog_alerts"
      [] m = "elastic" -> "list_elastic_alerts"
      [] m = "acumen_elastic" -> "acumen_list_elastic_alerts"

\* How executing a sibling can end: it defines its function, it completes
\* without that name, or it raises (a missing dependency, an error at its
\* top level).
LoadOutcomes == {"defines", "lacks", "raises"}

\* The namespace a sibling leaves when its execution completes; fid is the
\* identity of the function object it creates.
SiblingExec(m, outcome, fid) ==
    IF outcome = "defines" THEN (SiblingDefines(m) :> fid) ELSE EmptyDict

\* How a call of an alert-listing function can end.
CallResults == {"returned", "raised"}

----------------------------------------------------------------------------
\* The initializer's text.

\* The export list with one name written twice and one left out.
AllList_Dup ==
    <<"list_datadog_alerts", "list_elastic_alerts", "list_elastic_alerts">>

\* The export list still naming a function the package no longer imports.
AllList_Stale ==
    <<"list_datadog_alerts", "list_elastic_alerts", "list_splunk_alerts">>

\* Lines 4-8.
AllList ==
    <<"list_datadog_alerts", "list_elastic_alerts", "acumen_list_elastic_alerts">>

Lines == {"L1", "L2", "L3", "L4"}

\* Lines 1-3: the module each from-import names and the name it imports.
Imports ==
    [L1 |-> [mod |-> "datadog", name |-> "list_datadog_alerts"],
     L2 |-> [mod |-> "elastic", name |-> "list_elastic_alerts"],
     L3 |-> [mod |-> "acumen_elastic", name |-> "acumen_list_elastic_alerts"]]

\* The statement after each import.
NextLine == [L1 |-> "L2", L2 |-> "L3", L3 |-> "L4"]

NoErr == [line |-> "", kind |-> ""]
NoCall == [name |-> "", obj |-> NoneId, result |-> ""]

----------------------------------------------------------------------------
Init ==
    /\ pc = "idle"
    /\ attempts = 0
    /\ heap = <<NoneObj>>
    /\ sysModules = EmptyDict
    /\ ns = EmptyDict
    /\ boundBy = EmptyDict
    /\ modNs = EmptyDict
    /\ loadedAt = EmptyDict
    /\ err = NoErr
    /\ calls = 0
    /\ lastCall = NoCall

\* `import tracecat.actions.integrations.siem` by a consumer: the package is
\* not in sys.modules (never imported, or removed by a failed import), so the
\* import system makes a fresh module, enters it in sys.modules and starts
\* running the initializer. Siblings loaded by an earlier, failed attempt stay
\* in sys.modules.
Begin ==
    /\ pc \in {"idle", "failed"}
    /\ attempts < MaxAttempts
    /\ Package \notin DOMAIN sysModules
    /\ attempts' = attempts + 1
    /\ LET mid == Len(heap) + 1
           sid == Len(heap) + 2
           pid == Len(heap) + 3
       IN /\ heap' = heap \o <<ModuleObj(Package), StrObj(Package), ListObj(<<>>)>>
          /\ sysModules' = Bind(sysModules, Package, mid)
          /\ ns' = [a \in ModuleAttrs |->
                      CASE a = "__name__" -> sid
                        [] a = "__path__" -> pid
                        [] OTHER -> NoneId]
    /\ boundBy' = [a \in ModuleAttrs |-> "machinery"]
    /\ err' = NoErr
    /\ pc' = "L1"
    /\ UNCHANGED <<modNs, loadedAt, calls, lastCall>>

\* The statement wrapped in try/except with `pass`: the error is dropped and
\* the initializer goes on with its next statement.
Raise_Swallowed(line, kind, sm) ==
    /\ pc' = NextLine[line]
    /\ err' = err
    /\ sysModules' = sm

\* An exception leaves the initializer at `line`: nothing after it runs, and
\* the import system removes the half-initialized package from sys.modules
\* (sm is sys.modules as the statement left it).
Raise(line, kind, sm) ==
    /\ pc' = "failed"
    /\ err' = [line |-> line, kind |-> kind]
    /\ sysModules' = Unset(sm, Package)

\* IMPORT_FROM and STORE_NAME: getattr(module, name), bound in the package
\* namespace under the same name; ImportError when the module lacks it.
\* d and b are the namespace and its binders as IMPORT_NAME left them.
ImportName(line, next, mod, name, sibNs, d, b, sm) ==
    IF name \in DOMAIN sibNs
    THEN /\ ns' = Bind(d, name, sibNs[name])
         /\ boundBy' = Bind(b, name, line)
         /\ pc' = next
         /\ err' = err
         /\ sysModules' = sm
    ELSE /\ ns' = d
         /\ boundBy' = b
         /\ Raise(line, "cannot_import_name", sm)

\* from .<mod> import <name>, at `line`.
ImportFrom(line, next, mod, name) ==
    /\ pc = line
    /\ UNCHANGED <<attempts, calls, lastCall>>
    /\ IF mod \in DOMAIN sysModules
       THEN \* Cached in sys.modules: the module is not executed again, and
            \* it is not set again as an attribute of the (new) package.
            /\ UNCHANGED <<heap, modNs, loadedAt>>
            /\ ImportName(line, next, mod, name, modNs[mod], ns, boundBy,
                          sysModules)
       ELSE \E outcome \in LoadOutcomes :
            IF outcome = "raises"
            THEN \* The sibling's execution raises: it is not kept in
                 \* sys.modules, and the error leaves the initializer.
                 /\ UNCHANGED <<heap, modNs, loadedAt, ns, boundBy>>
                 /\ Raise(line, "sibling_raised", sysModules)
            ELSE LET mid == Len(heap) + 1
                     fid == Len(heap) + 2
                     sibNs == SiblingExec(mod, outcome, fid)
                 IN /\ heap' = IF outcome = "defines"
                               THEN heap \o <<ModuleObj(mod),
                                              FunctionObj(mod, SiblingDefines(mod))>>
                               ELSE Append(heap, ModuleObj(mod))
                    /\ modNs' = Bind(modNs, mod, sibNs)
                    /\ loadedAt' = Bind(loadedAt, mod, attempts)
                    \* The import system sets a freshly loaded submodule as an
                    \* attribute of its parent package.
                    /\ ImportName(line, next, mod, name, sibNs,
                                  Bind(ns, mod, mid),
                                  Bind(boundBy, mod, "machinery"),
                                  Bind(sysModules, mod, mid))

\* Line 1.
ImportDatadog ==
    ImportFrom("L1", NextLine["L1"], Imports["L1"].mod, Imports["L1"].name)

\* Line 2.
ImportElastic ==
    ImportFrom("L2", NextLine["L2"], Imports["L2"].mod, Imports["L2"].name)

\* Line 3 written by copying line 2 and changing only the bound name:
\* from .elastic import list_elastic_alerts as acumen_list_elastic_alerts
\* (elastic is in sys.modules here: line 2 has just imported from it).
ImportAcumenElastic_CopyPaste ==
    /\ pc = "L3"
    /\ ns' = Bind(ns, "acumen_list_elastic_alerts",
                  modNs["elastic"]["list_elastic_alerts"])
    /\ boundBy' = Bind(boundBy, "acumen_list_elastic_alerts", "L3")
    /\ pc' = "L4"
    /\ UNCHANGED <<attempts, heap, sysModules, modNs, loadedAt, err, calls,
                   lastCall>>

\* Line 3.
ImportAcumenElastic ==
    ImportFrom("L3", NextLine["L3"], Imports["L3"].mod, Imports["L3"].name)

\* The assignment with a public helper left in the namespace beside it
\* (a module-level `logger = ...`).
AssignAll_Extra ==
    /\ pc = "L4"
    /\ heap' = heap \o <<ListObj(AllList), StrObj("logger")>>
    /\ ns' = Bind(Bind(ns, "__all__", Len(heap) + 1), "logger", Len(heap) + 2)
    /\ boundBy' = Bind(Bind(boundBy, "__all__", "L4"), "logger", "L4")
    /\ pc' = "done"
    /\ UNCHANGED <<attempts, sysModules, modNs, loadedAt, err, calls, lastCall>>

\* The assignment evaluating a name that is not defined: NameError at line 4.
AssignAll_Raises ==
    /\ pc = "L4"
    /\ Raise("L4", "name_error", sysModules)
    /\ UNCHANGED <<attempts, heap, ns, boundBy, modNs, loadedAt, calls, lastCall>>

\* The initializer calling an imported function while it runs (a warm-up
\* request at import time) before it assigns __all__.
AssignAll_Eager ==
    /\ pc = "L4"
    /\ heap' = Append(heap, ListObj(AllList))
    /\ ns' = Bind(ns, "__all__", Len(heap) + 1)
    /\ boundBy' = Bind(boundBy, "__all__", "L4")
    /\ pc' = "done"
    /\ calls' = calls + 1
    /\ lastCall' = [name |-> "list_datadog_alerts",
                    obj |-> ns["list_datadog_alerts"], result |-> "returned"]
    /\ UNCHANGED <<attempts, sysModules, modNs, loadedAt, err>>

\* Lines 4-8: __all__ = [...], a new list object bound in the namespace. It is
\* the last statement: the initializer returns.
AssignAll ==
    /\ pc = "L4"
    /\ heap' = Append(heap, ListObj(AllList))
    /\ ns' = Bind(ns, "__all__", Len(heap) + 1)
    /\ boundBy' = Bind(boundBy, "__all__", "L4")
    /\ pc' = "done"
    /\ UNCHANGED <<attempts, sysModules, modNs, loadedAt, err, calls, lastCall>>

\* A consumer that imported the package calls one of its attributes:
\* getattr(package, n)(...). The callee queries its backend and returns the
\* alerts or raises.
Invoke ==
    /\ pc = "done"
    /\ calls < MaxCalls
    /\ \E n \in DOMAIN ns, result \in CallResults :
         /\ Callable(ns[n])
         /\ lastCall' = [name |-> n, obj |-> ns[n], result |-> result]
    /\ calls' = calls + 1
    /\ UNCHANGED <<pc, attempts, heap, sysModules, ns, boundBy, modNs,
                   loadedAt, err>>

Next ==
    \/ Begin
    \/ ImportDatadog
    \/ ImportElastic
    \/ ImportAcumenElastic
    \/ AssignAll
    \/ Invoke

Spec == Init /\ [][Next]_vars

----------------------------------------------------------------------------
\* The properties.

\* The three names the package is to export.
ExportNames ==
    {"list_datadog_alerts", "list_elastic_alerts", "acumen_list_elastic_alerts"}

\* The items of the list bound to __all__ (when it is bound).
AllItems == heap[ns["__all__"]].items

\* The names of the export list and __all__ that each point of the
\* initializer has bound: at a line, the lines before it have run.
BoundBefore ==
    [L1 |-> {},
     L2 |-> {"list_datadog_alerts"},
     L3 |-> {"list_datadog_alerts", "list_elastic_alerts"},
     L4 |-> ExportNames]

\* The siblings executed by the current run of the initializer (the others
\* that are loaded were found in sys.modules).
LoadedThisRun ==
    {m \in Siblings : m \in DOMAIN loadedAt /\ loadedAt[m] = attempts}

\* The names whose binding a step changes in the package namespace.
ChangedNames ==
    {n \in (DOMAIN ns) \cup (DOMAIN ns') :
        \/ n \notin DOMAIN ns
        \/ n \notin DOMAIN ns'
        \/ ns[n] # ns'[n]}

\* C1: whenever __all__ is bound, it is bound to a list whose items, taken as
\* a set, are exactly the three export names, and no item occurs twice.
C1_ExportListExact ==
    "__all__" \in DOMAIN ns =>
        /\ heap[ns["__all__"]].kind = "list"
        /\ Range(AllItems) = ExportNames
        /\ Cardinality(Range(AllItems)) = Len(AllItems)

C1_Witness == pc = "done" /\ "__all__" \in DOMAIN ns /\ Len(AllItems) = 3

\* C2: after a successful import every name listed in __all__ is bound in the
\* package namespace, to an object that is not None and is callable, and the
\* binding was made by one of the three import statements.
C2_ExportsBoundCallable ==
    pc = "done" =>
        \A i \in DOMAIN AllItems :
            /\ AllItems[i] \in DOMAIN ns
            /\ ns[AllItems[i]] # NoneId
            /\ Callable(ns[AllItems[i]])
            /\ boundBy[AllItems[i]] \in {"L1", "L2", "L3"}

C2_Witness ==
    /\ pc = "done"
    /\ \A n \in ExportNames : n \in DOMAIN ns /\ Callable(ns[n])

\* C3 as stated: after a successful import the public attributes of the
\* package are exactly the three export names.
C3_OnlyThreePublic == pc = "done" => PublicNames(ns) = ExportNames

\* C3 amended: after a successful import the public attributes are the three
\* export names and, beside them, the name of each sibling module this run of
\* the initializer executed, bound to that module's object; nothing else is
\* public, and the names of __all__ are exactly the three.
C3_PublicNames ==
    pc = "done" =>
        /\ PublicNames(ns) = ExportNames \cup LoadedThisRun
        /\ \A m \in LoadedThisRun :
              /\ ns[m] = sysModules[m]
              /\ heap[ns[m]] = ModuleObj(m)
        /\ Range(AllItems) = ExportNames

C3_Witness ==
    /\ pc = "done"
    /\ attempts = 1
    /\ PublicNames(ns) = ExportNames \cup Siblings

\* C4 as stated: whatever loading the siblings does, no error leaves the
\* initializer.
C4_ImportNeverRaises == pc # "failed" /\ err = NoErr

\* C4 amended: an error leaves the initializer only at one of its three
\* import statements, and only when the sibling that statement names raised
\* while it was executed (it is then not in sys.modules) or is loaded without
\* the imported name; the package is then not in sys.modules. No other
\* statement raises, and a call that raises is a call made after a successful
\* import.
C4_OnlySiblingErrors ==
    /\ pc = "failed" <=> err # NoErr
    /\ pc = "failed" =>
          /\ err.line \in DOMAIN Imports
          /\ Package \notin DOMAIN sysModules
          /\ LET m == Imports[err.line].mod
                 n == Imports[err.line].name
             IN \/ err.kind = "sibling_raised" /\ m \notin DOMAIN sysModules
                \/ /\ err.kind = "cannot_import_name"
                   /\ m \in DOMAIN sysModules
                   /\ n \notin DOMAIN modNs[m]
    /\ lastCall.result = "raised" => pc = "done"

C4_Witness ==
    /\ pc = "failed"
    /\ err = [line |-> "L3", kind |-> "sibling_raised"]
    /\ {"datadog", "elastic"} \subseteq DOMAIN sysModules

\* C5: after a successful import each exported name is bound to the very
\* object its sibling module holds under that name, and a call made through
\* the package under an exported name is a call of that object.
C5_SameObject ==
    pc = "done" =>
        /\ \A l \in DOMAIN Imports :
              /\ Imports[l].name \in DOMAIN ns
              /\ Imports[l].mod \in DOMAIN modNs
              /\ Imports[l].name \in DOMAIN modNs[Imports[l].mod]
              /\ ns[Imports[l].name] = modNs[Imports[l].mod][Imports[l].name]
        /\ \A l \in DOMAIN Imports :
              lastCall.name = Imports[l].name =>
                  lastCall.obj = modNs[Imports[l].mod][Imports[l].name]

C5_Witness ==
    /\ pc = "done"
    /\ lastCall.name = "acumen_list_elastic_alerts"
    /\ lastCall.obj = modNs["acumen_elastic"]["acumen_list_elastic_alerts"]

\* (C6 as stated) a statement of the initializer changes, in the package
\* namespace, only the three imported names and __all__, and leaves the calls
\* made to the backends as they were.
StatedFrameStep ==
    pc \in Lines =>
        /\ ChangedNames \subseteq ExportNames \cup {"__all__"}
        /\ UNCHANGED <<attempts, calls, lastCall>>

\* C6 as stated: every step of the initializer is such a step.
C6_OnlyThreeAndAll == [][StatedFrameStep]_vars

\* (C6 amended) a statement of the initializer changes, in the package
\* namespace, only the three imported names, __all__ and the module names of
\* the siblings it loads; through the import system it adds to sys.modules
\* the siblings it loads (and the package leaves sys.modules when the
\* statement raises); it makes no call, starts no import, and leaves the
\* objects that exist and the namespaces of the siblings already loaded as
\* they were.
FrameStep ==
    pc \in Lines =>
          /\ ChangedNames \subseteq ExportNames \cup {"__all__"} \cup Siblings
          /\ UNCHANGED <<attempts, calls, lastCall>>
          /\ \A i \in DOMAIN heap : heap'[i] = heap[i]
          /\ \A m \in DOMAIN modNs : modNs'[m] = modNs[m]
          /\ \A m \in DOMAIN sysModules \ {Package} :
                m \in DOMAIN sysModules' /\ sysModules'[m] = sysModules[m]
          /\ (DOMAIN sysModules') \ (DOMAIN sysModules) \subseteq Siblings

\* C6 amended: every step of the initializer writes only the package
\* namespace (the three names, __all__, the names of the siblings it loads)
\* and the import system's record of the modules loaded, and leaves the calls
\* made, the objects that exist and the siblings already loaded unchanged.
C6_Frame == [][FrameStep]_vars

C6_Witness ==
    /\ pc = "done"
    /\ calls = 0
    /\ Siblings \cup {"__all__"} \subseteq DOMAIN ns

\* C7: the statements run in the order of the file, so at each line exactly
\* the names of the lines before it are bound; an import that fails stops the
\* initializer there, with __all__ unassigned and the package out of
\* sys.modules; and whenever __all__ is bound, every name it lists is bound.
C7_OrderedAllOrNothing ==
    /\ pc \in Lines =>
          (DOMAIN ns) \cap (ExportNames \cup {"__all__"}) = BoundBefore[pc]
    /\ pc = "failed" =>
          /\ (DOMAIN ns) \cap (ExportNames \cup {"__all__"}) = BoundBefore[err.line]
          /\ Package \notin DOMAIN sysModules
    /\ "__all__" \in DOMAIN ns =>
          /\ pc = "done"
          /\ Range(AllItems) \subseteq DOMAIN ns
    /\ \A n \in (DOMAIN ns) \cap ExportNames :
          \E l \in DOMAIN Imports : Imports[l].name = n /\ boundBy[n] = l

C7_Witness ==
    /\ pc = "failed"
    /\ err.line = "L2"
    /\ "list_datadog_alerts" \in DOMAIN ns
    /\ "__all__" \notin DOMAIN ns

====
